---- MODULE Spec2Model ----
(***************************************************************************)
(* ProxyAPIClient.chat_completion (src/ai/api.py) for a claude/anthropic   *)
(* model: the streaming bridge (worker thread + queue + polling consumer), *)
(* the single-shot path, and the 403/404 fallback over model_variants.     *)
(*                                                                         *)
(* Attempt 0 is the primary attempt (lines 127-192); attempts 1..4 are the *)
(* entries of model_variants (lines 260-327).  One worker thread, one      *)
(* queue.Queue and one one-element error list exist per streaming attempt. *)
(*                                                                         *)
(* Timing: queue.get(timeout=0.1) raises Empty only when the queue is      *)
(* empty; thread.join(timeout=5) returns early only when the worker has    *)
(* exited, and times out only while the worker is blocked inside the       *)
(* provider call (the worker's remaining statements never block: the queue *)
(* is unbounded).  A worker's last put(None) and the end of its thread are *)
(* one step.                                                               *)
(*                                                                         *)
(* The command layer (cli.py, search.py, ask.py, chat.py) is modelled on   *)
(* its own: a command sees chat_completion and get_completion as fragments *)
(* followed by the end or by an exception.                                 *)
(***************************************************************************)
EXTENDS Integers, Sequences, FiniteSets, TLC

VARIABLES
    model,      \* the model argument of the call (a sequence of characters)
    messages,   \* the messages argument of the call
    stream,     \* the stream argument of the call
    pc,         \* position of the async generator chat_completion
    att,        \* attempt the generator is running (0 primary, 1..4 variants)
    timeouts,   \* join(timeout=5) calls that timed out so far
    closing,    \* GeneratorExit has been thrown into the generator (aclose)
    exc,        \* exception in flight inside the generator
    e,          \* the exception bound by "except Exception as e" (line 219)
    rq,         \* queue the closure variable retry_queue is bound to
    re,         \* list the closure variable retry_error is bound to
    queue,      \* queue[a]: contents of the queue.Queue created by attempt a
    werr,       \* werr[a]: element 0 of the error list created by attempt a
    wstate,     \* wstate[a]: position of the worker thread of attempt a
    wexc,       \* wexc[a]: the exception the worker of attempt a caught
    emitted,    \* emitted[a]: fragments the provider call of attempt a emitted
    pushed,     \* history: pushed[a] = the puts done by worker a, in order
    calls,      \* history: attempts whose provider call was started, in order
    won,        \* history: attempts whose path completed without raising
    exhausted,  \* history: the loop over model_variants ran out (line 329)
    out,        \* history: fragments the caller received, in order
    terms,      \* history: terminal conditions the caller observed
    joins,      \* history: the join(timeout=5) calls made, in order
    printed,    \* history: what console.print was given, in order
    content,    \* the accumulator of the consumer (get_completion's content)
    endpoint,   \* result of _get_endpoint_for_model(model)
    client,     \* result of _get_client(model)
    anthropic_messages,  \* the list built at lines 89-115
    retry_messages,      \* the list built at lines 242-258
    streamed,            \* what an earlier streaming call of the same request gave
    command,    \* the command the process runs: "search", "ask" or "chat"
    chat_name,  \* the NAME argument of the chat command
    cpc,        \* position of the command
    outcome,    \* how run_search / run_ask / run_chat ended
    exit_code,  \* exit code of the process
    exchanges_left,  \* ask_command's counter
    requests,   \* history: get_completion calls the ask command made
    prompts,    \* history: follow-up prompts the ask command showed
    cmd_messages,    \* the messages list of search_command / ask_command
    session,    \* the ChatSession of chat_command
    disk,       \* the files of config.chats_directory, by chat name
    response_text,   \* chat_command's accumulator of the streamed reply
    turn,       \* "open" from add_message("user") to the reply or to the except clause
    last_save,  \* history: the last call of ChatSession.save
    notice,     \* history: the last message a command printed
    caught,     \* the exception an except clause of the chat loop has bound
    upstream    \* history: chat_completion raised an upstream failure to the command

\* arguments of the call and results of the pure helpers
argVars == <<model, messages, endpoint, client, anthropic_messages, retry_messages,
             streamed>>

\* state of the command layer (cli.py, search.py, ask.py, chat.py)
cmdVars == <<command, chat_name, cpc, outcome, exit_code, exchanges_left, requests, prompts,
             cmd_messages, session, disk, response_text, turn, last_save, notice, caught,
             upstream>>

vars == <<argVars, cmdVars, stream, pc, att, timeouts, closing, exc, e, rq, re, queue, werr,
          wstate, wexc, emitted, pushed, calls, won, exhausted, out, terms, joins,
          printed, content>>

genVars == <<argVars, cmdVars, stream, pc, att, timeouts, closing, exc, e, rq, re, calls, won,
             exhausted, out, terms, joins, printed, content>>

workerVars == <<queue, werr, wstate, wexc, emitted, pushed>>

-----------------------------------------------------------------------------
\* Bounds and program constants

\* fragments the provider calls of one chat_completion call emit in total
MaxFrags == 2

\* join timeouts during one chat_completion call
MaxTimeouts == 2

\* len(model_variants)
NumVariants == 4

Attempts == 0 .. NumVariants

Variants == 1 .. NumVariants

-----------------------------------------------------------------------------
\* Values

\* "no exception" / stream_error[0] is None
NoExc == [t |-> "none"]

\* the exception a provider call of attempt a raised; kind "denied" when
\* str(e) contains "403" or "404"
Err(a, k) == [t |-> "err", att |-> a, kind |-> k]

ErrKinds == {"denied", "quota", "timeout", "network", "timeout_network", "other"}

\* the substrings of the tests of lines 224 and 335-339 that str(e) holds
Words(k) ==
    CASE k = "denied" -> {"403"}
      [] k = "quota" -> {"insufficient_quota"}
      [] k = "timeout" -> {"timeout"}
      [] k = "network" -> {"network"}
      [] k = "timeout_network" -> {"timeout", "network"}
      [] OTHER -> {}

\* what the provider call of attempt a may raise: a variant's exception is
\* caught by "except Exception: continue" whatever its message
ErrKindsOf(a) == IF a = 0 THEN ErrKinds ELSE {"denied"}

GenExit == [t |-> "genexit"]

\* Exception("Не удалось найти подходящий формат модели")
NoVariantError == [t |-> "novariant"]

\* text_delta number i of the provider call of attempt a; idx 0 is the full
\* text of a single-shot call
Frag(a, i) == [att |-> a, idx |-> i]

\* response.content[0].text of the single-shot call of attempt a: the text
\* made of n deltas
Full(a, n) == [att |-> a, idx |-> 0, len |-> n]

\* items of a queue: a fragment, ("error", e), None
DataSig(f) == [t |-> "data", frag |-> f]

ErrorSig(x) == [t |-> "error", err |-> x]

DoneSig == [t |-> "done"]

IsException(x) == x.t \in {"err", "novariant"}

\* "403" in error_msg or "404" in error_msg
IsDenied(x) == x.t = "err" /\ Words(x.kind) \cap {"403", "404"} # {}

\* lines 335-342: the message printed for the error, first match first
Category(x) ==
    LET w == Words(x.kind)
    IN  IF w \cap {"insufficient_quota", "credits"} # {} THEN "quota"
        ELSE IF "timeout" \in w THEN "timeout"
        ELSE IF w \cap {"network", "connection"} # {} THEN "network"
        ELSE "api_error"

-----------------------------------------------------------------------------
\* Model routing: _is_anthropic_model, _get_endpoint_for_model, _get_client

\* pieces a model string is made of
MaxPieces == 2

Claude == <<"c", "l", "a", "u", "d", "e">>

Anthropic == <<"a", "n", "t", "h", "r", "o", "p", "i", "c">>

OpenAISlash == <<"o", "p", "e", "n", "a", "i", "/">>

Pieces ==
    { Claude, <<"C", "L", "A", "U", "D", "E">>, <<"c", "l">>, <<"a", "u", "d", "e">>,
      Anthropic, <<"A", "n", "t", "h", "r", "o", "p", "i", "c">>,
      OpenAISlash, <<"O", "p", "e", "n", "A", "I", "/">>, <<"o", "p", "e", "n", "a", "i">>,
      <<"g", "p", "t">>, <<"/">>, <<"x">> }

RECURSIVE Strings(_)
Strings(n) ==
    IF n = 0 THEN { <<>> }
    ELSE LET shorter == Strings(n - 1)
         IN  shorter \cup { s \o p : s \in shorter, p \in Pieces }

ModelStrings == Strings(MaxPieces)

\* the models the call is made with: one per provider family
CallModels == { Claude \o <<"-">> \o <<"x">>, OpenAISlash \o <<"g", "p", "t">>,
                <<"g", "p", "t">> }

\* str.lower(), on the letters the pieces hold
LowerChar(c) ==
    CASE c = "A" -> "a" [] c = "C" -> "c" [] c = "D" -> "d" [] c = "E" -> "e"
      [] c = "I" -> "i" [] c = "L" -> "l" [] c = "O" -> "o" [] c = "U" -> "u"
      [] OTHER -> c

Lower(s) == [i \in 1 .. Len(s) |-> LowerChar(s[i])]

\* w in s
Contains(s, w) ==
    \E i \in 1 .. (Len(s) - Len(w) + 1) : SubSeq(s, i, i + Len(w) - 1) = w

\* s.startswith(w)
StartsWith(s, w) == Len(s) >= Len(w) /\ SubSeq(s, 1, Len(w)) = w

\* the test without lower()
is_anthropic_model_cased(m) == Contains(m, Claude) \/ Contains(m, Anthropic)

is_anthropic_model(m) ==
    LET model_lower == Lower(m)
    IN  Contains(model_lower, Claude) \/ Contains(model_lower, Anthropic)

AnthropicEndpoint == "https://api.proxyapi.ru/anthropic"

OpenAIEndpoint == "https://api.proxyapi.ru/openai/v1"

OpenRouterEndpoint == "https://api.proxyapi.ru/openrouter/v1"

get_endpoint_for_model(m) ==
    LET model_lower == Lower(m)
    IN  IF is_anthropic_model(m) THEN AnthropicEndpoint
        ELSE IF StartsWith(model_lower, OpenAISlash) THEN OpenAIEndpoint
        ELSE OpenRouterEndpoint

get_client(m) ==
    IF is_anthropic_model(m)
    THEN [class |-> "Anthropic", base_url |-> AnthropicEndpoint]
    ELSE [class |-> "AsyncOpenAI", base_url |-> get_endpoint_for_model(m)]

\* nothing routed yet
NoResult == [class |-> "none"]

-----------------------------------------------------------------------------
\* Message translation for the Anthropic API (lines 89-115 and 242-258)

\* messages of one request
MaxMsgs == 3

Msg(r, c) == [role |-> r, content |-> c]

\* a system prompt of the commands, and what a user or the model may say
SystemTexts == { <<"X">> }

Texts == { <<>>, <<"Y">>, <<"Z">> }

MsgValues ==
    { Msg("system", c) : c \in SystemTexts }
      \cup { Msg(r, c) : r \in {"user", "assistant"}, c \in Texts }

RECURSIVE MsgLists(_)
MsgLists(n) ==
    IF n = 0 THEN { <<>> }
    ELSE LET shorter == MsgLists(n - 1)
         IN  shorter \cup { Append(l, v) : l \in shorter, v \in MsgValues }

SystemCount(l) == Cardinality({ i \in 1 .. Len(l) : l[i].role = "system" })

\* the message lists of the commands hold one system message at most
MessageLists == { l \in MsgLists(MaxMsgs) : SystemCount(l) <= 1 }

\* f"System: {system_content}"
SystemPrefix == <<"S", "y", "s", "t", "e", "m", ":", " ">>

\* the for loop of lines 92-108: [system_content, anthropic_messages] after
\* the first n messages; system_content None is <<"None">>
RECURSIVE LoopPrimary(_, _)
LoopPrimary(msgs, n) ==
    IF n = 0 THEN [system_content |-> <<"None">>, has |-> FALSE, list |-> <<>>]
    ELSE LET before == LoopPrimary(msgs, n - 1)
             msg == msgs[n]
         IN  IF msg.role = "system"
             THEN [before EXCEPT !.system_content = msg.content, !.has = TRUE]
             ELSE IF msg.role \in {"user", "assistant"}
             THEN [before EXCEPT !.list = Append(@, Msg(msg.role, msg.content))]
             ELSE before

\* the system message is added at the end of the list
TranslateAppend(msgs) ==
    LET r == LoopPrimary(msgs, Len(msgs))
    IN  IF r.has /\ r.system_content # <<>>
        THEN Append(r.list, Msg("user", SystemPrefix \o r.system_content))
        ELSE r.list

\* lines 89-115
TranslatePrimary(msgs) ==
    LET r == LoopPrimary(msgs, Len(msgs))
    IN  IF r.has /\ r.system_content # <<>>
        THEN <<Msg("user", SystemPrefix \o r.system_content)>> \o r.list
        ELSE r.list

\* the for loop of lines 244-252
RECURSIVE LoopFallback(_, _)
LoopFallback(msgs, n) ==
    IF n = 0 THEN [system_content |-> <<"None">>, has |-> FALSE, list |-> <<>>]
    ELSE LET before == LoopFallback(msgs, n - 1)
             msg == msgs[n]
         IN  IF msg.role = "system"
             THEN [before EXCEPT !.system_content = msg.content, !.has = TRUE]
             ELSE IF msg.role \in {"user", "assistant"}
             THEN [before EXCEPT !.list = Append(@, Msg(msg.role, msg.content))]
             ELSE before

\* lines 242-258
TranslateFallback(msgs) ==
    LET r == LoopFallback(msgs, Len(msgs))
    IN  IF r.has /\ r.system_content # <<>>
        THEN <<Msg("user", SystemPrefix \o r.system_content)>> \o r.list
        ELSE r.list

\* the request of a command: its system prompt, then the user's text
CallMessages == <<Msg("system", <<"X">>), Msg("user", <<"Y">>)>>

-----------------------------------------------------------------------------
\* The command layer: values of cli.py, search.py, ask.py and chat.py

\* ask.py line 23
MAX_EXCHANGES == 3

\* datetime.now() as this run reads it, and as an earlier run read it
Times == {"t1"}

EarlierTime == "t0"

\* the prompts of chat.py line 20, ask.py line 14 and search.py line 13
CHAT_SYSTEM_PROMPT == <<"X">>

ASK_SYSTEM_PROMPT == <<"Xa">>

SEARCH_SYSTEM_PROMPT == <<"Xs">>

\* no NAME argument: None and "" are both false at chat.py lines 33 and 121
NoName == ""

\* names the user gives on the command line, after /new and after /load
GivenNames == {"a"}

\* f"chat-{datetime.now().strftime('%Y%m%d-%H%M%S')}"
DefaultName(now) == "chat-" \o now

ChatNames == GivenNames \cup { DefaultName(now) : now \in Times }

\* config.model_chat, and the model an older configuration named
ConfigModelChat == Claude \o <<"-">> \o <<"x">>

OlderModelChat == Anthropic \o <<"/">> \o Claude

\* session is None (chat.py line 117)
NoSession == [kind |-> "none"]

\* ChatSession.__init__ (chat.py lines 32-39)
ChatSession(name, now) ==
    [kind |-> "session",
     name |-> IF name # NoName THEN name ELSE DefaultName(now),
     created |-> now,
     model |-> ConfigModelChat,
     messages |-> <<Msg("system", CHAT_SYSTEM_PROMPT)>>]

\* ChatSession.add_message (chat.py lines 41-43)
add_message(s, role, text) == [s EXCEPT !.messages = Append(@, Msg(role, text))]

\* a path of chats_dir that does not exist, and a file json.load rejects
\* (open(filepath, "w") truncates the file before json.dump writes it)
NoFile == [kind |-> "none"]

Corrupt == [kind |-> "corrupt"]

\* every message is persisted, the system prompt as well
chat_data_unfiltered(s) ==
    [kind |-> "chat", name |-> s.name, created |-> s.created, model |-> s.model,
     messages |-> s.messages]

\* chat.py lines 50-57: the chat_data ChatSession.save dumps
chat_data(s) ==
    LET save_messages == SelectSeq(s.messages, LAMBDA msg : msg.role # "system")
    IN  [kind |-> "chat", name |-> s.name, created |-> s.created, model |-> s.model,
         messages |-> save_messages]

\* the loaded list is the saved one, with no system prompt put in front
load_bare(f, now) ==
    [ChatSession(f.name, now) EXCEPT !.created = f.created, !.model = f.model,
                                     !.messages = f.messages]

\* chat.py lines 79-87: the session ChatSession.load builds from the file's
\* chat_data, the clock reading now
load(f, now) ==
    [ChatSession(f.name, now) EXCEPT
        !.created = f.created,
        !.model = f.model,
        !.messages = <<Msg("system", CHAT_SYSTEM_PROMPT)>> \o f.messages]

\* a chat an earlier run saved under name n
EarlierChat(n) ==
    [kind |-> "chat", name |-> n, created |-> EarlierTime, model |-> OlderModelChat,
     messages |-> <<Msg("user", <<"Y">>), Msg("assistant", <<"Z">>)>>]

\* what Prompt.ask returns, as its words: user_input.split()
ChatInputs ==
    { <<>>, <<"/exit">>, <<"/save">>, <<"/list">>, <<"/new">>, <<"/load">>, <<"/undo">>,
      <<"Y">> }
      \cup { <<"/new", n>> : n \in GivenNames }
      \cup { <<"/load", n>> : n \in GivenNames }

\* the reply chat_completion streams to the chat command, as its fragments
Reply == <<"r", "s">>

\* what console.input returns to the ask command, as its characters
AskInputs == { <<>>, <<" ">>, <<"Q">> }

\* str.strip() on those characters
RECURSIVE lstrip(_)
lstrip(s) == IF s # <<>> /\ Head(s) = " " THEN lstrip(Tail(s)) ELSE s

RECURSIVE rstrip(_)
rstrip(s) ==
    IF s # <<>> /\ s[Len(s)] = " " THEN rstrip(SubSeq(s, 1, Len(s) - 1)) ELSE s

strip(s) == rstrip(lstrip(s))

\* what get_completion returns to search and ask, as tokens: a word, a
\* citation mark "[1]", a blank
Responses == { <<"w">>, <<"w", "[1]", " ", "w">> }

\* re.sub(r'\s+', ' ', ...): a run of blanks becomes one blank
RECURSIVE squeeze(_)
squeeze(s) ==
    IF Len(s) < 2 THEN s
    ELSE IF s[1] = " " /\ s[2] = " " THEN squeeze(Tail(s))
    ELSE <<s[1]>> \o squeeze(Tail(s))

\* search.py lines 44-48, ask.py lines 53-55: the citation marks are removed,
\* then the runs of blanks are squeezed
cleaned_response(response) ==
    squeeze(SelectSeq(response, LAMBDA tok : tok # "[1]"))

\* no call of ChatSession.save yet
NoSave == [at |-> "never"]

\* nothing printed yet
NoNotice == [t |-> "none"]

\* a message that reports no error; only its being one is kept
Info(text) == [t |-> "info"]

\* chat.py line 173: the chat /load names does not exist
NotFound == [t |-> "not_found"]

\* the process runs the call of chat_completion alone: no command
Idle ==
    /\ command = "none"
    /\ chat_name = NoName
    /\ cpc = "idle"
    /\ outcome = "none"
    /\ exit_code = -1
    /\ exchanges_left = 0
    /\ requests = 0
    /\ prompts = 0
    /\ cmd_messages = <<>>
    /\ session = NoSession
    /\ disk = [n \in ChatNames |-> NoFile]
    /\ response_text = <<>>
    /\ turn = "idle"
    /\ last_save = NoSave
    /\ notice = NoNotice
    /\ caught = NoExc
    /\ upstream = FALSE

-----------------------------------------------------------------------------
\* nothing has run yet
Fresh ==
    /\ streamed = [done |-> FALSE]
    /\ endpoint = ""
    /\ client = NoResult
    /\ anthropic_messages = <<>>
    /\ retry_messages = <<>>
    /\ joins = <<>>
    /\ printed = <<>>
    /\ content = <<>>
    /\ att = 0
    /\ timeouts = 0
    /\ closing = FALSE
    /\ exc = NoExc
    /\ e = NoExc
    /\ rq = 0
    /\ re = 0
    /\ queue = [a \in Attempts |-> <<>>]
    /\ werr = [a \in Attempts |-> NoExc]
    /\ wstate = [a \in Attempts |-> "idle"]
    /\ wexc = [a \in Attempts |-> NoExc]
    /\ emitted = [a \in Attempts |-> 0]
    /\ pushed = [a \in Attempts |-> <<>>]
    /\ calls = <<>>
    /\ won = <<>>
    /\ exhausted = FALSE
    /\ out = <<>>
    /\ terms = <<>>

\* a call of chat_completion by one of the commands
Init ==
    /\ model \in CallModels
    /\ messages = CallMessages
    /\ stream \in BOOLEAN
    /\ pc = "start"
    /\ Fresh
    /\ Idle

-----------------------------------------------------------------------------
\* The worker thread: _stream_anthropic (a = 0) and _stream_retry (a >= 1)

\* The queue a put of worker a goes to.  _stream_anthropic closes over
\* thread_queue_obj, which is bound once; _stream_retry closes over the
\* variable retry_queue, which every loop iteration rebinds.
QueueOf(a) == IF a = 0 THEN 0 ELSE rq

\* The error list worker a writes: stream_error, or what retry_error is bound to
\* (-1: bound to the exception of line 330, or unbound after that handler).
ErrListOf(a) == IF a = 0 THEN 0 ELSE re

\* queue.LifoQueue in place of queue.Queue
PutFront(a, sig) ==
    /\ queue' = [queue EXCEPT ![QueueOf(a)] = <<sig>> \o @]
    /\ pushed' = [pushed EXCEPT ![a] = Append(@, [sig |-> sig, to |-> QueueOf(a)])]

\* queue.put(sig) by the worker of attempt a
Put(a, sig) ==
    /\ queue' = [queue EXCEPT ![QueueOf(a)] = Append(@, sig)]
    /\ pushed' = [pushed EXCEPT ![a] = Append(@, [sig |-> sig, to |-> QueueOf(a)])]

RECURSIVE SumTo(_, _)
SumTo(f, n) == IF n < 0 THEN 0 ELSE f[n] + SumTo(f, n - 1)

TotalEmitted == SumTo(emitted, NumVariants)

\* for text_delta in stream_response.text_stream: queue.put(text_delta)
WorkerEmit(a) ==
    /\ wstate[a] = "calling"
    /\ TotalEmitted < MaxFrags
    /\ emitted' = [emitted EXCEPT ![a] = @ + 1]
    /\ Put(a, DataSig(Frag(a, emitted[a] + 1)))
    /\ UNCHANGED <<genVars, werr, wstate, wexc>>

\* text_stream is exhausted and the with block exits: on to the finally clause
WorkerReturn(a) ==
    /\ wstate[a] = "calling"
    /\ wstate' = [wstate EXCEPT ![a] = "put_done"]
    /\ UNCHANGED <<genVars, queue, werr, wexc, emitted, pushed>>

\* "except Exception: pass": the worker keeps the failure to itself
WorkerRaiseSilent(a, k) ==
    /\ wstate[a] = "calling"
    /\ wexc' = [wexc EXCEPT ![a] = Err(a, k)]
    /\ wstate' = [wstate EXCEPT ![a] = "put_done"]
    /\ UNCHANGED <<genVars, queue, werr, emitted, pushed>>

\* the provider call raises x: except Exception as e: stream_error[0] = e
\* (when retry_error is no longer bound to a list the assignment itself raises,
\* and the worker goes straight to its finally clause)
WorkerRaise(a, k) ==
    /\ wstate[a] = "calling"
    /\ wexc' = [wexc EXCEPT ![a] = Err(a, k)]
    /\ IF ErrListOf(a) \in Attempts
       THEN /\ werr' = [werr EXCEPT ![ErrListOf(a)] = Err(a, k)]
            /\ wstate' = [wstate EXCEPT ![a] = "put_error"]
       ELSE /\ werr' = werr
            /\ wstate' = [wstate EXCEPT ![a] = "put_done"]
    /\ UNCHANGED <<genVars, queue, emitted, pushed>>

\* queue.put(("error", e))
WorkerPutError(a) ==
    /\ wstate[a] = "put_error"
    /\ Put(a, ErrorSig(wexc[a]))
    /\ wstate' = [wstate EXCEPT ![a] = "put_done"]
    /\ UNCHANGED <<genVars, werr, wexc, emitted>>

\* finally: queue.put(None); the thread's target returns and is_alive()
\* becomes False
WorkerPutDone(a) ==
    /\ wstate[a] = "put_done"
    /\ Put(a, DoneSig)
    /\ wstate' = [wstate EXCEPT ![a] = "dead"]
    /\ UNCHANGED <<genVars, werr, wexc, emitted>>

-----------------------------------------------------------------------------
\* The async generator chat_completion

\* the generator finishes: the caller's __anext__/aclose returns or raises
Terminate(ev) ==
    /\ pc' = "done"
    /\ terms' = Append(terms, ev)

EndEvent == [t |-> "end"]

ClosedEvent == [t |-> "closed"]

\* RuntimeError("async generator ignored GeneratorExit"), raised by aclose()
IgnoredExitEvent == [t |-> "ignored"]

ErrorEvent(x) == [t |-> "error", err |-> x]

\* the text of a fragment, as the sequence of the deltas it is made of
Text(f) == IF f.idx = 0 THEN [i \in 1 .. f.len |-> Frag(f.att, i)] ELSE <<f>>

\* yield chunk: the caller receives the fragment and the generator is
\* suspended at susp; a generator that is being closed must not yield
Yield(f, susp) ==
    IF closing
    THEN /\ Terminate(IgnoredExitEvent)
         /\ out' = out
         /\ content' = content
    ELSE /\ out' = Append(out, f)
         /\ content' = content \o Text(f)
         /\ pc' = susp
         /\ terms' = terms

\* One item taken from the attempt's queue (lines 155-162, 170-174, 295-299,
\* 305-309); onDone is where "if chunk is None: break" leads, susp the yield
TakeItem(item, onDone, susp) ==
    CASE item.t = "done" ->
            /\ pc' = onDone
            /\ UNCHANGED <<exc, out, content, terms>>
      [] item.t = "error" ->
            /\ exc' = item.err
            /\ pc' = "finally"
            /\ UNCHANGED <<out, content, terms>>
      [] item.t = "data" ->
            /\ Yield(item.frag, susp)
            /\ exc' = exc

\* lines 86-145 / 262-289: build the request; stream: create the queue and the
\* error list and start the worker; else hand the call to the executor.
\* Binding retry_queue and retry_error anew leaves the Queue and the list of
\* the variant before unreachable: their content is dropped.
StartAttempt ==
    /\ pc \in {"start", "variant"}
    /\ calls' = Append(calls, att)
    /\ client' = IF att = 0 THEN get_client(model) ELSE client
    /\ endpoint' = IF att = 0 /\ ~is_anthropic_model(model)
                   THEN get_endpoint_for_model(model) ELSE endpoint
    /\ anthropic_messages' = IF att = 0 /\ is_anthropic_model(model)
                             THEN TranslatePrimary(messages) ELSE anthropic_messages
    /\ IF stream /\ is_anthropic_model(model)
       THEN /\ wstate' = [wstate EXCEPT ![att] = "calling"]
            /\ pc' = "get"
            /\ rq' = IF att = 0 THEN rq ELSE att
            /\ re' = IF att = 0 THEN re ELSE att
            /\ queue' = IF att > 1 THEN [queue EXCEPT ![rq] = <<>>] ELSE queue
            /\ werr' = IF att > 1 THEN [werr EXCEPT ![re] = NoExc] ELSE werr
       ELSE /\ pc' = IF stream THEN "oai_iter" ELSE "create"
            /\ UNCHANGED <<wstate, rq, re, queue, werr>>
    /\ UNCHANGED <<cmdVars, model, messages, streamed, retry_messages, joins, printed, content, stream, att,
                   timeouts, closing, exc, e, won, exhausted, out, terms, wexc, emitted,
                   pushed>>

\* chunk = queue.get(timeout=0.1), an item is there
Get ==
    /\ pc = "get"
    /\ queue[att] # <<>>
    /\ queue' = [queue EXCEPT ![att] = Tail(@)]
    /\ TakeItem(Head(queue[att]), "finally", "y_get")
    /\ UNCHANGED <<argVars, cmdVars, joins, printed, stream, att, timeouts, closing, e, rq, re, calls, won, exhausted,
                   werr, wstate, wexc, emitted, pushed>>

\* queue.get(timeout=0.1) raises Empty
GetTimeout ==
    /\ pc = "get"
    /\ queue[att] = <<>>
    /\ pc' = "empty"
    /\ UNCHANGED <<argVars, cmdVars, joins, printed, content, stream, att, timeouts, closing, exc, e, rq, re, calls, won, exhausted,
                   out, terms, workerVars>>

\* except Empty: if not thread.is_alive(): drain, else continue
CheckAlive ==
    /\ pc = "empty"
    /\ pc' = IF wstate[att] = "dead" THEN "drain" ELSE "get"
    /\ UNCHANGED <<argVars, cmdVars, joins, printed, content, stream, att, timeouts, closing, exc, e, rq, re, calls, won, exhausted,
                   out, terms, workerVars>>

\* the inner "except Empty" continues instead of breaking the outer loop
DrainNoBreak ==
    /\ pc = "drain"
    /\ IF queue[att] = <<>>
       THEN /\ pc' = "get"
            /\ UNCHANGED <<queue, exc, out, content, terms>>
       ELSE /\ queue' = [queue EXCEPT ![att] = Tail(@)]
            /\ TakeItem(Head(queue[att]), "get", "y_drain")
    /\ UNCHANGED <<argVars, cmdVars, joins, printed, stream, att, timeouts, closing, e, rq, re, calls, won,
                   exhausted, werr, wstate, wexc, emitted, pushed>>

\* a finished worker ends the loop at once, whatever the queue still holds
DrainSkip ==
    /\ pc = "drain"
    /\ pc' = "finally"
    /\ UNCHANGED <<argVars, cmdVars, joins, printed, content, stream, att, timeouts, closing, exc, e, rq, re, calls, won,
                   exhausted, out, terms, workerVars>>

\* the inner loop: chunk = queue.get_nowait(); None breaks the inner loop and
\* "continue" goes back to get(); Empty breaks the outer loop
Drain ==
    /\ pc = "drain"
    /\ IF queue[att] = <<>>
       THEN /\ pc' = "finally"
            /\ UNCHANGED <<queue, exc, out, content, terms>>
       ELSE /\ queue' = [queue EXCEPT ![att] = Tail(@)]
            /\ TakeItem(Head(queue[att]), "get", "y_drain")
    /\ UNCHANGED <<argVars, cmdVars, joins, printed, stream, att, timeouts, closing, e, rq, re, calls, won, exhausted,
                   werr, wstate, wexc, emitted, pushed>>

\* lines 208-214, an OpenAI-compatible model: the next chunk of the stream
\* holds text and is yielded (a chunk without text changes nothing)
OaiChunk ==
    /\ pc = "oai_iter"
    /\ TotalEmitted < MaxFrags
    /\ emitted' = [emitted EXCEPT ![0] = @ + 1]
    /\ Yield(Frag(0, emitted[0] + 1), "y_oai")
    /\ UNCHANGED <<argVars, cmdVars, joins, printed, stream, att, timeouts, closing, exc, e, rq, re,
                   calls, won, exhausted, queue, werr, wstate, wexc, pushed>>

\* the stream of the OpenAI-compatible model ends
OaiEnd ==
    /\ pc = "oai_iter"
    /\ pc' = "unwind"
    /\ UNCHANGED <<argVars, cmdVars, joins, printed, content, stream, att, timeouts, closing, exc, e,
                   rq, re, calls, won, exhausted, out, terms, workerVars>>

\* create(stream=True) or the iteration over its stream raises
OaiRaise(k) ==
    /\ pc = "oai_iter"
    /\ exc' = Err(att, k)
    /\ pc' = "unwind"
    /\ UNCHANGED <<argVars, cmdVars, joins, printed, content, stream, att, timeouts, closing, e,
                   rq, re, calls, won, exhausted, out, terms, workerVars>>

\* the caller asks for the next fragment
Resume ==
    /\ pc \in {"y_get", "y_drain", "y_one", "y_oai"}
    /\ pc' = CASE pc = "y_get" -> "get"
               [] pc = "y_drain" -> "drain"
               [] pc = "y_one" -> "unwind"
               [] pc = "y_oai" -> "oai_iter"
    /\ UNCHANGED <<argVars, cmdVars, joins, printed, content, stream, att, timeouts, closing, exc, e, rq, re, calls, won, exhausted,
                   out, terms, workerVars>>

\* the caller gives up: aclose() throws GeneratorExit at the yield
Abandon ==
    /\ pc \in {"y_get", "y_drain", "y_one", "y_oai"}
    /\ closing' = TRUE
    /\ exc' = GenExit
    /\ pc' = IF pc \in {"y_one", "y_oai"} THEN "unwind" ELSE "finally"
    /\ UNCHANGED <<argVars, cmdVars, joins, printed, content, stream, att, timeouts, e, rq, re, calls, won, exhausted, out,
                   terms, workerVars>>

\* no join: the finally clause goes straight to the error check
JoinNoWait ==
    /\ pc = "finally"
    /\ pc' = "check"
    /\ UNCHANGED <<argVars, cmdVars, joins, printed, content, stream, att, timeouts, closing, exc, e, rq, re, calls, won,
                   exhausted, out, terms, workerVars>>

\* finally: thread.join(timeout=5), the worker has exited
JoinDone ==
    /\ pc = "finally"
    /\ wstate[att] = "dead"
    /\ joins' = Append(joins, [att |-> att, joined |-> TRUE])
    /\ pc' = "check"
    /\ UNCHANGED <<argVars, cmdVars, printed, content, stream, att, timeouts, closing, exc, e, rq, re, calls, won, exhausted,
                   out, terms, workerVars>>

\* finally: thread.join(timeout=5) gives up on a worker that is still inside
\* the provider call
JoinTimeout ==
    /\ pc = "finally"
    /\ wstate[att] = "calling"
    /\ timeouts < MaxTimeouts
    /\ timeouts' = timeouts + 1
    /\ joins' = Append(joins, [att |-> att, joined |-> FALSE])
    /\ pc' = "check"
    /\ UNCHANGED <<argVars, cmdVars, printed, content, stream, att, closing, exc, e, rq, re, calls, won, exhausted,
                   out, terms, workerVars>>

\* if stream_error[0]: raise stream_error[0]
CheckError ==
    /\ pc = "check"
    /\ exc' = IF werr[att] # NoExc THEN werr[att] ELSE exc
    /\ pc' = "unwind"
    /\ UNCHANGED <<argVars, cmdVars, joins, printed, content, stream, att, timeouts, closing, e, rq, re, calls, won, exhausted,
                   out, terms, workerVars>>

\* the single-shot call returns and the generator falls off its end without
\* a yield
CreateOkNoYield(n) ==
    /\ pc = "create"
    /\ pc' = "unwind"
    /\ UNCHANGED <<argVars, cmdVars, joins, printed, content, stream, att, timeouts, closing, exc,
                   e, rq, re, calls, won, exhausted, out, terms, workerVars>>

\* result = await loop.run_in_executor(None, _create_...); yield result
CreateOk(n) ==
    /\ pc = "create"
    /\ Yield(Full(att, n), "y_one")
    /\ UNCHANGED <<argVars, cmdVars, joins, printed, stream, att, timeouts, closing, exc, e, rq, re, calls, won, exhausted,
                   workerVars>>

\* client.messages.create raises
CreateFail(k) ==
    /\ pc = "create"
    /\ exc' = Err(att, k)
    /\ pc' = "unwind"
    /\ UNCHANGED <<argVars, cmdVars, joins, printed, content, stream, att, timeouts, closing, e, rq, re, calls, won, exhausted,
                   out, terms, workerVars>>

\* lines 234-239, each hardcoded identifier taken as one piece
model_variants ==
    << model, <<"claude-opus-4-5-20251101">>, <<"claude-3-opus-20240229">>,
       <<"claude-3-5-sonnet-20241022">> >>

\* kwargs["model"] of attempt a (lines 118, 199, 263)
ModelOf(a) == IF a = 0 THEN model ELSE model_variants[a]

\* the fallback is tried for any model
FallbackOnDenied(x) == IsDenied(x)

\* line 224: the fallback is tried for an Anthropic model and a 403/404 error
FallbackTriggered(x) == is_anthropic_model(model) /\ IsDenied(x)

\* Line 192 or 217 falls off the end of the generator; line 324 prints the
\* variant that was used and line 325 returns.
EndNormally ==
    /\ won' = Append(won, att)
    /\ printed' = IF att > 0 THEN Append(printed, [t |-> "used", variant |-> att])
                  ELSE printed
    /\ Terminate(IF closing THEN ClosedEvent ELSE EndEvent)
    /\ UNCHANGED <<att, exc, e, client, retry_messages>>

\* line 325 without its return: a variant that succeeded is followed by the
\* next one
ContinueAfterSuccess ==
    /\ won' = Append(won, att)
    /\ printed' = Append(printed, [t |-> "used", variant |-> att])
    /\ att' = att + 1
    /\ pc' = "variant"
    /\ UNCHANGED <<exc, e, terms, client, retry_messages>>

\* GeneratorExit is no Exception: no handler catches it, the generator is closed
CloseGenerator ==
    /\ Terminate(ClosedEvent)
    /\ UNCHANGED <<att, exc, e, won, printed, client, retry_messages>>

\* Lines 219-258: the exception of the primary attempt is bound to e; when the
\* fallback is triggered its notice is printed, the Anthropic client is
\* created and the messages are translated again.
CatchPrimary ==
    /\ e' = exc
    /\ exc' = NoExc
    /\ IF FallbackTriggered(exc)
       THEN /\ printed' = Append(printed, [t |-> "fallback"])
            /\ client' = [class |-> "Anthropic", base_url |-> AnthropicEndpoint]
            /\ retry_messages' = TranslateFallback(messages)
            /\ att' = 1
            /\ pc' = "variant"
       ELSE /\ pc' = "reraise"
            /\ UNCHANGED <<printed, client, retry_messages, att>>
    /\ UNCHANGED <<won, terms>>

\* the loop goes on with the variant after the next one
SkipVariant ==
    /\ exc' = NoExc
    /\ att' = IF att + 1 < NumVariants THEN att + 2 ELSE att
    /\ pc' = IF att + 1 < NumVariants THEN "variant" ELSE "exhausted"
    /\ UNCHANGED <<e, won, terms, printed, client, retry_messages>>

\* lines 326-327: "except Exception: continue", on to the next variant; after
\* the last one the loop is left
NextVariant ==
    /\ exc' = NoExc
    /\ att' = IF att < NumVariants THEN att + 1 ELSE att
    /\ pc' = IF att < NumVariants THEN "variant" ELSE "exhausted"
    /\ UNCHANGED <<e, won, terms, printed, client, retry_messages>>

UnwindNoReturn ==
    /\ pc = "unwind"
    /\ CASE exc = NoExc /\ (att = 0 \/ att = NumVariants) -> EndNormally
         [] exc = NoExc /\ att > 0 /\ att < NumVariants -> ContinueAfterSuccess
         [] exc = GenExit -> CloseGenerator
         [] IsException(exc) /\ att = 0 -> CatchPrimary
         [] IsException(exc) /\ att > 0 -> NextVariant
    /\ UNCHANGED <<cmdVars, model, messages, streamed, endpoint, anthropic_messages, joins, content, stream,
                   timeouts, closing, rq, re, calls, exhausted, out, workerVars>>

\* The attempt's code is left.  Without an exception the generator ends (line
\* 192 falls off the end, line 325 returns); GeneratorExit is no Exception and
\* leaves the generator; an Exception of the primary attempt is caught at line
\* 219 and starts the fallback when line 224 says so; an Exception of a variant
\* is caught at line 326 and the loop continues.
Unwind ==
    /\ pc = "unwind"
    /\ CASE exc = NoExc -> EndNormally
         [] exc = GenExit -> CloseGenerator
         [] IsException(exc) /\ att = 0 -> CatchPrimary
         [] IsException(exc) /\ att > 0 -> NextVariant
    /\ UNCHANGED <<cmdVars, model, messages, streamed, endpoint, anthropic_messages, joins, content, stream,
                   timeouts, closing, rq, re, calls, exhausted, out, workerVars>>

\* line 329 raises "no suitable model format"; line 330 catches it as
\* retry_error and lines 331-333 print it and two hints
Exhaust ==
    /\ pc = "exhausted"
    /\ exhausted' = TRUE
    /\ re' = -1
    /\ printed' = printed \o <<[t |-> "retry_failed", err |-> NoVariantError],
                              [t |-> "hint_model"], [t |-> "hint_docs"]>>
    /\ pc' = "reraise"
    /\ UNCHANGED <<argVars, cmdVars, joins, content, stream, att, timeouts, closing, exc, e, rq,
                   calls, won, out, terms, workerVars>>

\* "raise retry_error" in place of the bare raise
ReraiseRetryError ==
    /\ pc = "reraise"
    /\ printed' = Append(printed, [t |-> "category", cat |-> Category(e)])
    /\ Terminate(ErrorEvent(IF exhausted THEN NoVariantError ELSE e))
    /\ UNCHANGED <<argVars, cmdVars, joins, content, stream, att, timeouts, closing, exc, e, rq, re,
                   calls, won, exhausted, out, workerVars>>

\* the handler ends without the raise of line 344
ReraiseSwallowed ==
    /\ pc = "reraise"
    /\ printed' = Append(printed, [t |-> "category", cat |-> Category(e)])
    /\ Terminate(EndEvent)
    /\ UNCHANGED <<argVars, cmdVars, joins, content, stream, att, timeouts, closing, exc, e, rq, re,
                   calls, won, exhausted, out, workerVars>>

\* lines 335-344: print the category of e, then the bare raise
Reraise ==
    /\ pc = "reraise"
    /\ printed' = Append(printed, [t |-> "category", cat |-> Category(e)])
    /\ Terminate(ErrorEvent(e))
    /\ UNCHANGED <<argVars, cmdVars, joins, content, stream, att, timeouts, closing, exc, e, rq, re,
                   calls, won, exhausted, out, workerVars>>

-----------------------------------------------------------------------------
Next ==
    \/ StartAttempt
    \/ Get
    \/ GetTimeout
    \/ CheckAlive
    \/ Drain
    \/ OaiChunk
    \/ OaiEnd
    \/ \E k \in ErrKinds : OaiRaise(k)
    \/ Resume
    \/ Abandon
    \/ JoinDone
    \/ JoinTimeout
    \/ CheckError
    \/ \E n \in 0 .. MaxFrags : CreateOk(n)
    \/ \E k \in ErrKindsOf(att) : CreateFail(k)
    \/ Unwind
    \/ Exhaust
    \/ Reraise
    \/ \E a \in Attempts : WorkerEmit(a)
    \/ \E a \in Attempts : WorkerReturn(a)
    \/ \E a \in Attempts : \E k \in ErrKindsOf(a) : WorkerRaise(a, k)
    \/ \E a \in Attempts : WorkerPutError(a)
    \/ \E a \in Attempts : WorkerPutDone(a)

Spec == Init /\ [][Next]_vars

\* The caller iterates until the generator ends: no aclose().  join() then
\* never meets a worker that is still inside the provider call.
NextIter ==
    \/ StartAttempt
    \/ Get
    \/ GetTimeout
    \/ CheckAlive
    \/ Drain
    \/ OaiChunk
    \/ OaiEnd
    \/ \E k \in ErrKinds : OaiRaise(k)
    \/ Resume
    \/ JoinDone
    \/ CheckError
    \/ \E n \in 0 .. MaxFrags : CreateOk(n)
    \/ \E k \in ErrKindsOf(att) : CreateFail(k)
    \/ Unwind
    \/ Exhaust
    \/ Reraise
    \/ \E a \in Attempts : WorkerEmit(a)
    \/ \E a \in Attempts : WorkerReturn(a)
    \/ \E a \in Attempts : \E k \in ErrKindsOf(a) : WorkerRaise(a, k)
    \/ \E a \in Attempts : WorkerPutError(a)
    \/ \E a \in Attempts : WorkerPutDone(a)

\* Scheduling: the event loop runs the generator whenever it can take a step,
\* the caller resumes a suspended generator, every started thread runs, and
\* the provider's blocking call returns or raises in the end.
GenStep ==
    \/ StartAttempt
    \/ Get
    \/ GetTimeout
    \/ CheckAlive
    \/ Drain
    \/ OaiEnd
    \/ \E k \in ErrKinds : OaiRaise(k)
    \/ JoinDone
    \/ CheckError
    \/ \E n \in 0 .. MaxFrags : CreateOk(n)
    \/ \E k \in ErrKindsOf(att) : CreateFail(k)
    \/ Unwind
    \/ Exhaust
    \/ Reraise

Fairness ==
    /\ WF_vars(GenStep)
    /\ WF_vars(Resume)
    /\ \A a \in Attempts :
          /\ WF_vars(WorkerReturn(a) \/ \E k \in ErrKindsOf(a) : WorkerRaise(a, k))
          /\ WF_vars(WorkerPutError(a))
          /\ WF_vars(WorkerPutDone(a))

FairIterSpec == Init /\ [][NextIter]_vars /\ Fairness

-----------------------------------------------------------------------------
\* One request made twice against a provider that answers a request the same
\* way each time: first a streaming call that is iterated to its end, then
\* get_completion (stream=False).  The provider calls of the first call say
\* how the provider answers: wexc[a] is what it raises for attempt a and
\* emitted[a] is the number of deltas its text has up to there.

LawInit ==
    /\ model = Claude \o <<"-">> \o <<"x">>
    /\ messages = CallMessages
    /\ stream = TRUE
    /\ pc = "start"
    /\ Fresh
    /\ Idle

\* the streaming call is over; get_completion is called with the same request
\* (lines 354-361: content = "", stream=False)
CallAgain ==
    /\ pc = "done"
    /\ ~streamed.done
    /\ streamed' = [done |-> TRUE, content |-> content, terms |-> terms]
    /\ stream' = FALSE
    /\ pc' = "start"
    /\ att' = 0
    /\ exc' = NoExc
    /\ e' = NoExc
    /\ calls' = <<>>
    /\ won' = <<>>
    /\ exhausted' = FALSE
    /\ out' = <<>>
    /\ terms' = <<>>
    /\ joins' = <<>>
    /\ printed' = <<>>
    /\ content' = <<>>
    /\ UNCHANGED <<cmdVars, model, messages, endpoint, client, anthropic_messages, retry_messages,
                   timeouts, closing, rq, re, workerVars>>

\* client.messages.create returns the text the provider streamed before
CreateSameOk ==
    /\ streamed.done
    /\ wstate[att] = "dead"
    /\ wexc[att] = NoExc
    /\ CreateOk(emitted[att])

\* client.messages.create raises what the provider raised before
CreateSameFail ==
    /\ streamed.done
    /\ wexc[att] # NoExc
    /\ CreateFail(wexc[att].kind)

LawNext ==
    \/ StartAttempt
    \/ Get
    \/ GetTimeout
    \/ CheckAlive
    \/ Drain
    \/ Resume
    \/ JoinDone
    \/ CheckError
    \/ Unwind
    \/ Exhaust
    \/ Reraise
    \/ \E a \in Attempts : WorkerEmit(a)
    \/ \E a \in Attempts : WorkerReturn(a)
    \/ \E a \in Attempts : \E k \in ErrKindsOf(a) : WorkerRaise(a, k)
    \/ \E a \in Attempts : WorkerPutError(a)
    \/ \E a \in Attempts : WorkerPutDone(a)
    \/ CallAgain
    \/ CreateSameOk
    \/ CreateSameFail

LawSpec == LawInit /\ [][LawNext]_vars

-----------------------------------------------------------------------------
\* Routing on its own: any model string is routed

RouteInit ==
    /\ model \in ModelStrings
    /\ messages = CallMessages
    /\ stream = FALSE
    /\ pc = "route"
    /\ Fresh
    /\ Idle

\* endpoint = self._get_endpoint_for_model(model)
RouteEndpoint ==
    /\ pc = "route"
    /\ endpoint' = get_endpoint_for_model(model)
    /\ pc' = "endpoint"
    /\ UNCHANGED <<cmdVars, model, messages, streamed, client, anthropic_messages, retry_messages, joins,
                   printed, content, stream, att, timeouts, closing, exc, e, rq, re, calls,
                   won, exhausted, out, terms, workerVars>>

\* client = self._get_client(model)
RouteClient ==
    /\ pc = "endpoint"
    /\ client' = get_client(model)
    /\ pc' = "routed"
    /\ UNCHANGED <<cmdVars, model, messages, streamed, endpoint, anthropic_messages, retry_messages, joins,
                   printed, content, stream, att, timeouts, closing, exc, e, rq, re, calls,
                   won, exhausted, out, terms, workerVars>>

RouteNext == RouteEndpoint \/ RouteClient

RouteSpec == RouteInit /\ [][RouteNext]_vars

-----------------------------------------------------------------------------
\* Message translation on its own: any message list of a command is translated

TranslateInit ==
    /\ model = Claude
    /\ messages \in MessageLists
    /\ stream = FALSE
    /\ pc = "translate"
    /\ Fresh
    /\ Idle

\* lines 89-115, the primary attempt
TranslateForPrimary ==
    /\ pc = "translate"
    /\ anthropic_messages' = TranslatePrimary(messages)
    /\ pc' = "translate_retry"
    /\ UNCHANGED <<cmdVars, model, messages, streamed, endpoint, client, retry_messages, joins,
                   printed, content, stream, att, timeouts, closing, exc, e, rq, re, calls,
                   won, exhausted, out, terms, workerVars>>

\* lines 242-258, the fallback
TranslateForFallback ==
    /\ pc = "translate_retry"
    /\ retry_messages' = TranslateFallback(messages)
    /\ pc' = "translated"
    /\ UNCHANGED <<cmdVars, model, messages, streamed, endpoint, client, anthropic_messages, joins,
                   printed, content, stream, att, timeouts, closing, exc, e, rq, re, calls,
                   won, exhausted, out, terms, workerVars>>

TranslateNext == TranslateForPrimary \/ TranslateForFallback

TranslateSpec == TranslateInit /\ [][TranslateNext]_vars

-----------------------------------------------------------------------------
\* The commands search, ask and chat.  chat_completion and get_completion are
\* seen from their caller: fragments, then the end or an exception.  A
\* Ctrl-C reaches the command as KeyboardInterrupt raised where it runs or,
\* at an await, as the cancellation asyncio.run turns it into (CancelledError
\* is no Exception; asyncio.run then raises KeyboardInterrupt itself).

\* the variables of the call of chat_completion
apiVars == <<argVars, stream, pc, att, timeouts, closing, exc, e, rq, re, queue, werr,
             wstate, wexc, emitted, pushed, calls, won, exhausted, out, terms, joins,
             printed, content>>

\* the chats directory an earlier run left
InitialDisks ==
    { [n \in ChatNames |-> IF n = "a" THEN f ELSE NoFile] :
        f \in {NoFile, Corrupt, EarlierChat("a")} }

\* cli.py lines 42-84: one of the commands is invoked
CmdInit ==
    /\ model = ConfigModelChat
    /\ messages = CallMessages
    /\ stream = FALSE
    /\ pc = "start"
    /\ Fresh
    /\ command \in {"search", "ask", "chat"}
    /\ chat_name \in (IF command = "chat" THEN {NoName} \cup GivenNames ELSE {NoName})
    /\ disk \in (IF command = "chat" THEN InitialDisks ELSE {[n \in ChatNames |-> NoFile]})
    /\ cpc = "start"
    /\ outcome = "none"
    /\ exit_code = -1
    /\ exchanges_left = 0
    /\ requests = 0
    /\ prompts = 0
    /\ cmd_messages = <<>>
    /\ session = NoSession
    /\ response_text = <<>>
    /\ turn = "idle"
    /\ last_save = NoSave
    /\ notice = NoNotice
    /\ caught = NoExc
    /\ upstream = FALSE

\* the command function ends: cpc "ended", with how it ended
Ended(how) == cpc' = "ended" /\ outcome' = how

\* --- search.py

\* lines 25-41: the request is built and get_completion is awaited
SearchStart ==
    /\ command = "search" /\ cpc = "start"
    /\ cmd_messages' = <<Msg("system", SEARCH_SYSTEM_PROMPT), Msg("user", <<"Y">>)>>
    /\ cpc' = "call"
    /\ UNCHANGED <<apiVars, command, chat_name, outcome, exit_code, exchanges_left,
                   requests, prompts, session, disk, response_text, turn, last_save,
                   notice, caught, upstream>>

\* lines 43-53: the answer is cleaned and printed
SearchAnswer(response) ==
    /\ command = "search" /\ cpc = "call"
    /\ notice' = [t |-> "answer", text |-> cleaned_response(response)]
    /\ Ended("returned")
    /\ UNCHANGED <<apiVars, command, chat_name, exit_code, exchanges_left, requests,
                   prompts, cmd_messages, session, disk, response_text, turn, last_save,
                   caught, upstream>>

\* the except clause prints the error and the command returns normally
SearchRaiseSwallowed(k) ==
    /\ command = "search" /\ cpc = "call"
    /\ notice' = [t |-> "error", kind |-> k]
    /\ upstream' = TRUE
    /\ Ended("returned")
    /\ UNCHANGED <<apiVars, command, chat_name, exit_code, exchanges_left, requests,
                   prompts, cmd_messages, session, disk, response_text, turn, last_save,
                   caught>>

\* lines 55-57: get_completion raised; the error is printed and raised again
SearchRaise(k) ==
    /\ command = "search" /\ cpc = "call"
    /\ notice' = [t |-> "error", kind |-> k]
    /\ upstream' = TRUE
    /\ Ended("raised")
    /\ UNCHANGED <<apiVars, command, chat_name, exit_code, exchanges_left, requests,
                   prompts, cmd_messages, session, disk, response_text, turn, last_save,
                   caught>>

\* Ctrl-C during the request: "except Exception" (line 55) does not match
SearchInterrupt ==
    /\ command = "search" /\ cpc = "call"
    /\ Ended("interrupted")
    /\ UNCHANGED <<apiVars, command, chat_name, exit_code, exchanges_left, requests,
                   prompts, cmd_messages, session, disk, response_text, turn, last_save,
                   notice, caught, upstream>>

\* --- ask.py

\* lines 28-33
AskStart ==
    /\ command = "ask" /\ cpc = "start"
    /\ cmd_messages' = <<Msg("system", ASK_SYSTEM_PROMPT), Msg("user", <<"Q">>)>>
    /\ exchanges_left' = MAX_EXCHANGES
    /\ cpc' = "top"
    /\ UNCHANGED <<apiVars, command, chat_name, outcome, exit_code, requests, prompts,
                   session, disk, response_text, turn, last_save, notice, caught,
                   upstream>>

\* lines 36-50: the loop test holds and get_completion is awaited (the test
\* cannot fail: line 62 leaves the loop when the counter reaches 0)
AskRequest ==
    /\ command = "ask" /\ cpc = "top"
    /\ exchanges_left > 0
    /\ requests' = requests + 1
    /\ cpc' = "call"
    /\ UNCHANGED <<apiVars, command, chat_name, outcome, exit_code, exchanges_left,
                   prompts, cmd_messages, session, disk, response_text, turn, last_save,
                   notice, caught, upstream>>

\* the loop without the break of lines 62-64
AskAnswerNoBreak(response) ==
    /\ command = "ask" /\ cpc = "call"
    /\ cmd_messages' = Append(cmd_messages, Msg("assistant", cleaned_response(response)))
    /\ exchanges_left' = exchanges_left - 1
    /\ notice' = [t |-> "answer", text |-> cleaned_response(response)]
    /\ prompts' = prompts + 1
    /\ cpc' = "input"
    /\ UNCHANGED <<apiVars, command, chat_name, exit_code, requests, session, disk,
                   response_text, turn, last_save, caught, upstream, outcome>>

\* lines 52-68: the answer is cleaned, printed and appended; the counter
\* goes down; at 0 the command ends, otherwise it prompts for a question
AskAnswer(response) ==
    /\ command = "ask" /\ cpc = "call"
    /\ cmd_messages' = Append(cmd_messages, Msg("assistant", cleaned_response(response)))
    /\ exchanges_left' = exchanges_left - 1
    /\ IF exchanges_left' = 0
       THEN /\ notice' = Info("limit")
            /\ Ended("returned")
            /\ UNCHANGED prompts
       ELSE /\ notice' = [t |-> "answer", text |-> cleaned_response(response)]
            /\ prompts' = prompts + 1
            /\ cpc' = "input"
            /\ UNCHANGED outcome
    /\ UNCHANGED <<apiVars, command, chat_name, exit_code, requests, session, disk,
                   response_text, turn, last_save, caught, upstream>>

\* lines 68-74: the follow-up question; an empty one ends the command
AskInput(next_question) ==
    /\ command = "ask" /\ cpc = "input"
    /\ IF strip(next_question) = <<>>
       THEN /\ Ended("returned")
            /\ UNCHANGED cmd_messages
       ELSE /\ cmd_messages' = Append(cmd_messages, Msg("user", next_question))
            /\ cpc' = "top"
            /\ UNCHANGED outcome
    /\ UNCHANGED <<apiVars, command, chat_name, exit_code, exchanges_left, requests,
                   prompts, session, disk, response_text, turn, last_save, notice,
                   caught, upstream>>

\* lines 78-80: get_completion raised; the error is printed and raised again
AskRaise(k) ==
    /\ command = "ask" /\ cpc = "call"
    /\ notice' = [t |-> "error", kind |-> k]
    /\ upstream' = TRUE
    /\ Ended("raised")
    /\ UNCHANGED <<apiVars, command, chat_name, exit_code, exchanges_left, requests,
                   prompts, cmd_messages, session, disk, response_text, turn, last_save,
                   caught>>

\* lines 78-80: console.input raised EOFError (the input is closed)
AskInputEOF ==
    /\ command = "ask" /\ cpc = "input"
    /\ notice' = [t |-> "error", kind |-> "eof"]
    /\ Ended("raised")
    /\ UNCHANGED <<apiVars, command, chat_name, exit_code, exchanges_left, requests,
                   prompts, cmd_messages, session, disk, response_text, turn, last_save,
                   caught, upstream>>

\* lines 76-77: KeyboardInterrupt is caught; the command returns normally
AskInterrupt ==
    /\ command = "ask" /\ cpc \in {"call", "input"}
    /\ notice' = Info("interrupted")
    /\ Ended("acknowledged")
    /\ UNCHANGED <<apiVars, command, chat_name, exit_code, exchanges_left, requests,
                   prompts, cmd_messages, session, disk, response_text, turn, last_save,
                   caught, upstream>>

\* the request is cancelled: no except clause of ask_command matches
AskCancel ==
    /\ command = "ask" /\ cpc = "call"
    /\ Ended("interrupted")
    /\ UNCHANGED <<apiVars, command, chat_name, exit_code, exchanges_left, requests,
                   prompts, cmd_messages, session, disk, response_text, turn, last_save,
                   notice, caught, upstream>>

\* --- chat.py

\* ChatSession.save (lines 45-65) called at place at, succeeding or raising
\* OSError at open()
Saved(at, ok) ==
    /\ last_save' = [at |-> at, turn |-> turn]
    /\ disk' = IF ok THEN [disk EXCEPT ![session.name] = chat_data(session)] ELSE disk

\* ChatSession.list_chats (lines 89-105): unreadable files are skipped
list_chats == { disk[n].name : n \in { m \in ChatNames : disk[m].kind = "chat" } }

\* lines 117-134: the session is loaded or created
ChatStart(now) ==
    /\ command = "chat" /\ cpc = "start"
    /\ IF chat_name # NoName
       THEN CASE disk[chat_name].kind = "chat" ->
                    /\ session' = load(disk[chat_name], now)
                    /\ notice' = Info("loaded")
                    /\ cpc' = "prompt"
                    /\ UNCHANGED outcome
              [] disk[chat_name].kind = "none" ->
                    /\ session' = ChatSession(chat_name, now)
                    /\ notice' = Info("not_found")
                    /\ cpc' = "prompt"
                    /\ UNCHANGED outcome
              [] disk[chat_name].kind = "corrupt" ->
                    \* json.load raises: lines 235-237
                    /\ notice' = [t |-> "critical"]
                    /\ Ended("raised")
                    /\ UNCHANGED session
       ELSE /\ session' = ChatSession(NoName, now)
            /\ cpc' = "prompt"
            /\ UNCHANGED <<notice, outcome>>
    /\ UNCHANGED <<apiVars, command, chat_name, exit_code, exchanges_left, requests,
                   prompts, cmd_messages, disk, response_text, turn, last_save, caught,
                   upstream>>

\* lines 139-142: an empty input
ChatBlank ==
    /\ command = "chat" /\ cpc = "prompt"
    /\ \E user_input \in ChatInputs : user_input = <<>>
    /\ UNCHANGED vars

\* lines 148-150: /exit leaves the loop
ChatExit ==
    /\ command = "chat" /\ cpc = "prompt"
    /\ \E user_input \in ChatInputs : Len(user_input) > 0 /\ user_input[1] = "/exit"
    /\ notice' = Info("exit")
    /\ cpc' = "autosave"
    /\ UNCHANGED <<apiVars, command, chat_name, outcome, exit_code, exchanges_left,
                   requests, prompts, cmd_messages, session, disk, response_text, turn,
                   last_save, caught, upstream>>

\* lines 152-155: /save; an OSError of save is caught at line 216
ChatSave(ok) ==
    /\ command = "chat" /\ cpc = "prompt"
    /\ \E user_input \in ChatInputs : Len(user_input) > 0 /\ user_input[1] = "/save"
    /\ Saved("/save", ok)
    /\ IF ok
       THEN notice' = Info("saved") /\ UNCHANGED <<cpc, caught>>
       ELSE cpc' = "h_err" /\ caught' = [t |-> "oserror"] /\ UNCHANGED notice
    /\ UNCHANGED <<apiVars, command, chat_name, outcome, exit_code, exchanges_left,
                   requests, prompts, cmd_messages, session, response_text, turn,
                   upstream>>

\* lines 157-161: /new [name]
ChatNew(now) ==
    /\ command = "chat" /\ cpc = "prompt"
    /\ \E user_input \in ChatInputs :
          /\ Len(user_input) > 0 /\ user_input[1] = "/new"
          /\ LET name == IF Len(user_input) > 1 THEN user_input[2] ELSE NoName
             IN  session' = ChatSession(name, now)
    /\ notice' = Info("created")
    /\ UNCHANGED <<apiVars, command, chat_name, cpc, outcome, exit_code, exchanges_left,
                   requests, prompts, cmd_messages, disk, response_text, turn, last_save,
                   caught, upstream>>

\* lines 163-174: /load [name]
ChatLoad(now) ==
    /\ command = "chat" /\ cpc = "prompt"
    /\ \E user_input \in ChatInputs :
          /\ Len(user_input) > 0 /\ user_input[1] = "/load"
          /\ IF Len(user_input) < 2
             THEN /\ notice' = Info("usage")
                  /\ UNCHANGED <<session, cpc, caught>>
             ELSE LET name == user_input[2]
                  IN  CASE disk[name].kind = "chat" ->
                               /\ session' = load(disk[name], now)
                               /\ notice' = Info("loaded")
                               /\ UNCHANGED <<cpc, caught>>
                        [] disk[name].kind = "none" ->
                               /\ notice' = NotFound
                               /\ UNCHANGED <<session, cpc, caught>>
                        [] disk[name].kind = "corrupt" ->
                               \* json.load raises: caught at line 216
                               /\ cpc' = "h_err"
                               /\ caught' = [t |-> "jsonerror"]
                               /\ UNCHANGED <<session, notice>>
    /\ UNCHANGED <<apiVars, command, chat_name, outcome, exit_code, exchanges_left,
                   requests, prompts, cmd_messages, disk, response_text, turn, last_save,
                   upstream>>

\* lines 176-187: /list
ChatList ==
    /\ command = "chat" /\ cpc = "prompt"
    /\ \E user_input \in ChatInputs : Len(user_input) > 0 /\ user_input[1] = "/list"
    /\ notice' = Info(IF list_chats = {} THEN "no_chats" ELSE "table")
    /\ UNCHANGED <<apiVars, command, chat_name, cpc, outcome, exit_code, exchanges_left,
                   requests, prompts, cmd_messages, session, disk, response_text, turn,
                   last_save, caught, upstream>>

\* lines 189-191: any other word that starts with "/"
ChatUnknown ==
    /\ command = "chat" /\ cpc = "prompt"
    /\ \E user_input \in ChatInputs :
          /\ Len(user_input) > 0
          /\ user_input[1] \in {"/undo"}
    /\ notice' = Info("unknown")
    /\ UNCHANGED <<apiVars, command, chat_name, cpc, outcome, exit_code, exchanges_left,
                   requests, prompts, cmd_messages, session, disk, response_text, turn,
                   last_save, caught, upstream>>

\* lines 194-200: a message; the turn begins and chat_completion is iterated
ChatSend ==
    /\ command = "chat" /\ cpc = "prompt"
    /\ Len(session.messages) < MaxMsgs
    /\ \E user_input \in ChatInputs :
          /\ Len(user_input) > 0
          /\ user_input[1] \notin {"/exit", "/save", "/new", "/load", "/list", "/undo"}
          /\ session' = add_message(session, "user", user_input)
    /\ response_text' = <<>>
    /\ turn' = "open"
    /\ notice' = Info("ai")
    /\ cpc' = "stream"
    /\ UNCHANGED <<apiVars, command, chat_name, outcome, exit_code, exchanges_left,
                   requests, prompts, cmd_messages, disk, last_save, caught, upstream>>

\* Prompt.ask raised EOFError: caught at line 216
ChatPromptEOF ==
    /\ command = "chat" /\ cpc = "prompt"
    /\ cpc' = "h_err"
    /\ caught' = [t |-> "eof"]
    /\ UNCHANGED <<apiVars, command, chat_name, outcome, exit_code, exchanges_left,
                   requests, prompts, cmd_messages, session, disk, response_text, turn,
                   last_save, notice, upstream>>

\* lines 200-208: one fragment of the reply
ChatChunk ==
    /\ command = "chat" /\ cpc = "stream"
    /\ Len(response_text) < Len(Reply)
    /\ response_text' = Append(response_text, Reply[Len(response_text) + 1])
    /\ UNCHANGED <<apiVars, command, chat_name, cpc, outcome, exit_code, exchanges_left,
                   requests, prompts, cmd_messages, session, disk, turn, last_save,
                   notice, caught, upstream>>

\* lines 210-211: the reply ended; it is appended to the history
ChatReplyEnd ==
    /\ command = "chat" /\ cpc = "stream"
    /\ response_text = Reply
    /\ session' = add_message(session, "assistant", response_text)
    /\ turn' = "idle"
    /\ cpc' = "prompt"
    /\ UNCHANGED <<apiVars, command, chat_name, outcome, exit_code, exchanges_left,
                   requests, prompts, cmd_messages, disk, response_text, last_save,
                   notice, caught, upstream>>

\* the except clause appends what was streamed so far as the reply
ChatRaiseKeepsPartial(k) ==
    /\ command = "chat" /\ cpc = "stream"
    /\ session' = add_message(session, "assistant", response_text)
    /\ caught' = Err(0, k)
    /\ upstream' = TRUE
    /\ turn' = "failed"
    /\ cpc' = "h_err"
    /\ UNCHANGED <<apiVars, command, chat_name, outcome, exit_code, exchanges_left,
                   requests, prompts, cmd_messages, disk, response_text, last_save,
                   notice>>

\* line 216: chat_completion raised while the reply was streamed
ChatRaise(k) ==
    /\ command = "chat" /\ cpc = "stream"
    /\ caught' = Err(0, k)
    /\ upstream' = TRUE
    /\ turn' = "failed"
    /\ cpc' = "h_err"
    /\ UNCHANGED <<apiVars, command, chat_name, outcome, exit_code, exchanges_left,
                   requests, prompts, cmd_messages, session, disk, response_text,
                   last_save, notice>>

\* lines 217-218: the error is printed and the loop goes on
ChatErrContinue ==
    /\ command = "chat" /\ cpc = "h_err"
    /\ notice' = [t |-> "error", err |-> caught]
    /\ caught' = NoExc
    /\ turn' = "idle"
    /\ cpc' = "prompt"
    /\ UNCHANGED <<apiVars, command, chat_name, outcome, exit_code, exchanges_left,
                   requests, prompts, cmd_messages, session, disk, response_text,
                   last_save, upstream>>

\* the except clause of line 213 saves the session as that of line 228 does
ChatInterruptSaves ==
    /\ command = "chat" /\ cpc \in {"prompt", "stream"}
    /\ Saved("interrupt", TRUE)
    /\ turn' = IF turn = "open" THEN "failed" ELSE turn
    /\ cpc' = "h_intr"
    /\ UNCHANGED <<apiVars, command, chat_name, outcome, exit_code, exchanges_left,
                   requests, prompts, cmd_messages, session, response_text,
                   notice, caught, upstream>>

\* line 213: KeyboardInterrupt at the prompt or while the reply is streamed
ChatInterrupt ==
    /\ command = "chat" /\ cpc \in {"prompt", "stream"}
    /\ turn' = IF turn = "open" THEN "failed" ELSE turn
    /\ cpc' = "h_intr"
    /\ UNCHANGED <<apiVars, command, chat_name, outcome, exit_code, exchanges_left,
                   requests, prompts, cmd_messages, session, disk, response_text,
                   last_save, notice, caught, upstream>>

\* lines 214-215: the hint is printed and the loop goes on
ChatIntrContinue ==
    /\ command = "chat" /\ cpc = "h_intr"
    /\ notice' = Info("use_exit")
    /\ turn' = "idle"
    /\ cpc' = "prompt"
    /\ UNCHANGED <<apiVars, command, chat_name, outcome, exit_code, exchanges_left,
                   requests, prompts, cmd_messages, session, disk, response_text,
                   last_save, caught, upstream>>

\* the iteration of chat_completion is cancelled: CancelledError matches no
\* except clause of chat_command
ChatCancel ==
    /\ command = "chat" /\ cpc = "stream"
    /\ Ended("interrupted")
    /\ UNCHANGED <<apiVars, command, chat_name, exit_code, exchanges_left, requests,
                   prompts, cmd_messages, session, disk, response_text, turn, last_save,
                   notice, caught, upstream>>

\* lines 228-234: KeyboardInterrupt outside the inner try (while an except
\* clause prints, or during the autosave): the session is saved, an error
\* of save is dropped, and the command returns normally
ChatInterruptOutside(ok) ==
    /\ command = "chat" /\ cpc \in {"h_intr", "h_err", "autosave"}
    /\ Saved("interrupt", ok)
    /\ notice' = Info("exit")
    /\ Ended("acknowledged")
    /\ UNCHANGED <<apiVars, command, chat_name, exit_code, exchanges_left, requests,
                   prompts, cmd_messages, session, response_text, turn, caught,
                   upstream>>

\* lines 220-226: the autosave after the loop; an error of save is dropped
ChatAutosave(ok) ==
    /\ command = "chat" /\ cpc = "autosave"
    /\ Saved("exit", ok)
    /\ notice' = IF ok THEN Info("autosaved") ELSE notice
    /\ Ended("returned")
    /\ UNCHANGED <<apiVars, command, chat_name, exit_code, exchanges_left, requests,
                   prompts, cmd_messages, session, response_text, turn, caught,
                   upstream>>

\* --- cli.py

\* an interruption ends the process with exit code 1
CliExitInterruptOne ==
    /\ cpc = "ended"
    /\ exit_code' = IF outcome = "returned" THEN 0 ELSE 1
    /\ cpc' = "exited"
    /\ UNCHANGED <<apiVars, command, chat_name, outcome, exchanges_left, requests,
                   prompts, cmd_messages, session, disk, response_text, turn, last_save,
                   notice, caught, upstream>>

\* cli.py lines 47-54, 62-69, 77-84: the command returned, normally or
\* after it caught KeyboardInterrupt itself (click exits with 0), was
\* interrupted (sys.exit(0)) or raised (sys.exit(1))
CliExit ==
    /\ cpc = "ended"
    /\ exit_code' = CASE outcome \in {"returned", "acknowledged"} -> 0
                      [] outcome = "interrupted" -> 0
                      [] outcome = "raised" -> 1
    /\ cpc' = "exited"
    /\ UNCHANGED <<apiVars, command, chat_name, outcome, exchanges_left, requests,
                   prompts, cmd_messages, session, disk, response_text, turn, last_save,
                   notice, caught, upstream>>

CmdNext ==
    \/ SearchStart
    \/ \E response \in Responses : SearchAnswer(response)
    \/ \E k \in ErrKinds : SearchRaise(k)
    \/ SearchInterrupt
    \/ AskStart
    \/ AskRequest
    \/ \E response \in Responses : AskAnswer(response)
    \/ \E next_question \in AskInputs : AskInput(next_question)
    \/ \E k \in ErrKinds : AskRaise(k)
    \/ AskInputEOF
    \/ AskInterrupt
    \/ AskCancel
    \/ \E now \in Times : ChatStart(now)
    \/ ChatBlank
    \/ ChatExit
    \/ \E ok \in BOOLEAN : ChatSave(ok)
    \/ \E now \in Times : ChatNew(now)
    \/ \E now \in Times : ChatLoad(now)
    \/ ChatList
    \/ ChatUnknown
    \/ ChatSend
    \/ ChatPromptEOF
    \/ ChatChunk
    \/ ChatReplyEnd
    \/ \E k \in ErrKinds : ChatRaise(k)
    \/ ChatErrContinue
    \/ ChatInterrupt
    \/ ChatIntrContinue
    \/ ChatCancel
    \/ \E ok \in BOOLEAN : ChatInterruptOutside(ok)
    \/ \E ok \in BOOLEAN : ChatAutosave(ok)
    \/ CliExit

CmdSpec == CmdInit /\ [][CmdNext]_vars

\* cli.py lines 57-69: the ask command is invoked
AskInit == CmdInit /\ command = "ask"

AskNext ==
    \/ AskStart
    \/ AskRequest
    \/ \E response \in Responses : AskAnswer(response)
    \/ \E next_question \in AskInputs : AskInput(next_question)
    \/ \E k \in ErrKinds : AskRaise(k)
    \/ AskInputEOF
    \/ AskInterrupt
    \/ AskCancel
    \/ CliExit

\* every step of the command that is enabled is taken in the end: the
\* awaited request returns or raises, the user answers the prompt
AskFairSpec == AskInit /\ [][AskNext]_vars /\ WF_vars(AskNext)

-----------------------------------------------------------------------------
\* Properties

\* the fragments the provider call of attempt a has emitted, in order
Emitted(a) == [i \in 1 .. emitted[a] |-> Frag(a, i)]

\* the fragments of attempt a the caller has received, in order
FragsOf(a) == SelectSeq(out, LAMBDA f : f.att = a)

\* the fragments waiting in a queue, in order
DataIn(q) == LET d == SelectSeq(q, LAMBDA x : x.t = "data")
             IN  [i \in 1 .. Len(d) |-> d[i].frag]

IsPrefix(s, t) == Len(s) <= Len(t) /\ SubSeq(t, 1, Len(s)) = s

\* the call runs the streaming bridge: stream=True and an Anthropic model
Bridged == stream /\ is_anthropic_model(model)

\* positions of the generator inside the bridge of the running attempt
BridgePcs == {"get", "empty", "drain", "y_get", "y_drain", "finally", "check"}

\* C1: a streaming call that is iterated to its end and whose (primary)
\* provider call emitted f1..fn and ended without an exception has yielded
\* exactly f1..fn, in order, and ended normally; while the primary attempt
\* runs, what was yielded is a prefix of what was emitted.
C1_StreamYieldsEmittedInOrder ==
    stream =>
      /\ att = 0 => IsPrefix(out, Emitted(0))
      /\ (~closing /\ pc = "done" /\ wstate[0] = "dead" /\ wexc[0] = NoExc)
            => (out = Emitted(0) /\ terms = <<EndEvent>>)

C1_Witness ==
    /\ stream /\ ~closing /\ pc = "done"
    /\ wstate[0] = "dead" /\ wexc[0] = NoExc
    /\ Len(out) = 2 /\ out = Emitted(0)

\* C2: when the provider call of a bridge raised after emitting f1..fk, the
\* consumer loop is left with that exception in flight, and whenever an
\* exception is in flight out of the loop all of f1..fk have been yielded.
C2_ErrorAfterAllFragments ==
    (stream /\ ~closing) =>
      /\ (pc \in {"finally", "check", "unwind"} /\ IsException(exc))
            => FragsOf(att) = Emitted(att)
      /\ (pc = "unwind" /\ wexc[att] # NoExc) => exc = wexc[att]

C2_Witness ==
    /\ stream /\ ~closing /\ pc = "unwind" /\ att = 0
    /\ wexc[0] # NoExc /\ exc = wexc[0]
    /\ Len(out) = 2 /\ out = Emitted(0)

\* C3: the caller of a streaming call observes exactly one terminal
\* condition: none while the generator runs, one once it has finished, and
\* it does finish.
C3_ExactlyOneTerminal ==
    /\ [](stream => Len(terms) = (IF pc = "done" THEN 1 ELSE 0))
    /\ (stream => <>(pc = "done"))

C3_Witness ==
    /\ stream /\ pc = "done" /\ Len(terms) = 1
    /\ terms[1].t = "error" /\ Len(out) = 1 /\ ~exhausted

\* what the worker of attempt a pushes when it runs to its end
FullPushes(a) ==
    [i \in 1 .. emitted[a] |-> DataSig(Frag(a, i))]
      \o (IF wexc[a] # NoExc THEN <<ErrorSig(wexc[a])>> ELSE <<>>)
      \o <<DoneSig>>

PushedSigs(a) == [i \in 1 .. Len(pushed[a]) |-> pushed[a][i].sig]

\* C4: every worker pushes its Data fragments in emission order, then one
\* Error signal if and only if its provider call raised, then one Done as its
\* last push.
C4_WorkerPushPattern ==
    \A a \in Attempts :
      /\ IsPrefix(PushedSigs(a), FullPushes(a))
      /\ wstate[a] = "dead" => PushedSigs(a) = FullPushes(a)

\* C5: the drain loop runs only after the worker has finished; every fragment
\* the worker pushed is either yielded or still in the queue; and the consumer
\* leaves the loop only when no fragment is left in the queue.
C5_DrainLosesNothing ==
    (stream /\ ~closing /\ pc \in BridgePcs \cup {"unwind"}) =>
      /\ FragsOf(att) \o DataIn(queue[att]) = Emitted(att)
      /\ pc \in {"drain", "y_drain"} => wstate[att] = "dead"
      /\ pc \in {"finally", "check", "unwind"} => DataIn(queue[att]) = <<>>

C5_Witness ==
    /\ stream /\ ~closing /\ pc = "drain" /\ wstate[att] = "dead"
    /\ Len(queue[att]) = 3 /\ DataIn(queue[att]) = Emitted(att)

\* the provider call of attempt a has returned or raised
ProviderEnded(a) == wstate[a] \in {"put_error", "put_done", "dead"}

InBridge(a) == att = a /\ pc \in BridgePcs

\* C6: once the provider call of an attempt has returned or raised, the
\* consumer of that attempt's bridge leaves the bridge (loop and join).
C6_ConsumerTerminates ==
    \A a \in Attempts : (ProviderEnded(a) /\ InBridge(a)) ~> ~InBridge(a)

C6_Witness ==
    /\ stream /\ pc = "empty" /\ wstate[att] = "dead" /\ queue[att] # <<>>

\* C7: in a call that is iterated to its end no join times out; the worker of
\* a bridge is dead when its join has returned; and no worker is alive when
\* the generator has finished.
C7_WorkerJoinedBeforeReturn ==
    ~closing =>
      /\ timeouts = 0
      /\ pc \in {"check", "unwind"} /\ Bridged => wstate[att] = "dead"
      /\ pc = "done" => \A a \in Attempts : wstate[a] \in {"idle", "dead"}

C7_Witness ==
    /\ ~closing /\ stream /\ pc = "done" /\ exhausted
    /\ \A a \in Attempts : wstate[a] = "dead"

\* C8: at most one attempt completes without raising, the generator has
\* finished when it has, and no provider call was started after that one's.
C8_FirstSuccessWins ==
    won # <<>> =>
      /\ Len(won) = 1
      /\ pc = "done"
      /\ calls[Len(calls)] = won[1]

C8_Witness ==
    /\ won = <<2>> /\ calls = <<0, 1, 2>> /\ pc = "done" /\ ~closing

\* C9: when a fallback variant succeeded, the caller has received only that
\* variant's fragments.
C9_OnlyWinnersFragments ==
    (~closing /\ pc = "done" /\ won # <<>> /\ won[1] > 0) =>
      \A i \in 1 .. Len(out) : out[i].att = won[1]

\* C10: after the variants ran out the caller is raised the "no suitable
\* model format" error.
C10_RaisesNoVariantError ==
    (exhausted /\ pc = "done") => terms = <<ErrorEvent(NoVariantError)>>

\* C10 as amended: after the variants ran out the caller is raised the error
\* of the primary attempt, the one bound at line 219; the error of line 329
\* is printed only.
C10_RaisesPrimaryError ==
    (exhausted /\ pc = "done") =>
      /\ Len(terms) = 1
      /\ terms[1].t = "error"
      /\ terms[1].err.t = "err"
      /\ terms[1].err.att = 0
      /\ IsDenied(terms[1].err)

C10_Witness ==
    /\ exhausted /\ pc = "done" /\ ~closing
    /\ terms = <<ErrorEvent(Err(0, "denied"))>>
    /\ calls = <<0, 1, 2, 3, 4>>

\* the provider family of the model: the endpoint it is routed to
NativeAlt == get_endpoint_for_model(model) = AnthropicEndpoint

\* C11: a fallback variant is attempted only for a NativeAlt model whose
\* primary attempt failed with a 403/404 error; any other failure of the
\* primary attempt is raised to the caller after the one provider call.
C11_FallbackOnlyNativeDenied ==
    /\ (att > 0 \/ Len(calls) > 1) => (NativeAlt /\ IsDenied(e))
    /\ (pc = "done" /\ e # NoExc /\ ~(NativeAlt /\ IsDenied(e)))
          => (terms = <<ErrorEvent(e)>> /\ calls = <<0>>)

C11_Witness ==
    /\ ~NativeAlt /\ pc = "done" /\ IsDenied(e)
    /\ terms = <<ErrorEvent(e)>> /\ calls = <<0>> /\ stream /\ Len(out) = 1

Alive(a) == wstate[a] \in {"calling", "put_error", "put_done"}

\* C13: at most one attempt streams at a time: no two workers of one call
\* are alive together.
C13_OneWorkerAtATime ==
    \A a, b \in Attempts : (Alive(a) /\ Alive(b)) => a = b

\* C14: a worker pushes only onto the queue created for its own attempt.
C14_WorkerOwnsChannel ==
    \A a \in Attempts : \A i \in 1 .. Len(pushed[a]) : pushed[a][i].to = a

\* the model identifiers of the provider calls made so far, in order
RequestedModels == [i \in 1 .. Len(calls) |-> ModelOf(calls[i])]

\* C15: the provider calls of one chat_completion call are, in this order and
\* once each, the primary call and the calls for the entries of
\* model_variants: five at most, and one at most for a model that is not
\* NativeAlt.
C15_FixedOrderAtMostFive ==
    /\ IsPrefix(RequestedModels, <<model>> \o model_variants)
    /\ \A i \in 1 .. Len(calls) : calls[i] = i - 1
    /\ Len(calls) <= 1 + NumVariants
    /\ ~NativeAlt => Len(calls) <= 1

C15_Witness ==
    /\ pc = "done" /\ ~stream /\ Len(calls) = 5
    /\ RequestedModels = <<model>> \o model_variants

\* join(timeout=5) was called on the worker of attempt a
Joined(a) == \E i \in 1 .. Len(joins) : joins[i].att = a

\* C16: whichever way the sequence ended, every worker the call started was
\* joined before control went back to the caller.
C16_JoinBeforeReturn ==
    (pc = "done" /\ Bridged) =>
      \A a \in Attempts : wstate[a] # "idle" => Joined(a)

\* w occurs in s at position i, letter case aside
OccursAt(s, w, i) ==
    /\ i + Len(w) - 1 <= Len(s)
    /\ \A j \in 1 .. Len(w) : LowerChar(s[i + j - 1]) = w[j]

OccursIn(s, w) == \E i \in 1 .. Len(s) : OccursAt(s, w, i)

\* C17: every model string is routed, first match first: "claude" or
\* "anthropic" in any letter case anywhere gives the NativeAlt endpoint;
\* otherwise a leading "openai/" in any letter case gives the
\* OpenAICompatDirect endpoint; anything else the OpenAICompatRelay endpoint;
\* and the client of _get_client is built for that same endpoint.
C17_RoutingTotal ==
    pc = "routed" =>
      /\ endpoint =
            IF OccursIn(model, Claude) \/ OccursIn(model, Anthropic)
            THEN AnthropicEndpoint
            ELSE IF OccursAt(model, OpenAISlash, 1) THEN OpenAIEndpoint
            ELSE OpenRouterEndpoint
      /\ client.base_url = endpoint
      /\ client.class = IF endpoint = AnthropicEndpoint THEN "Anthropic"
                        ELSE "AsyncOpenAI"

C17_Witness ==
    /\ pc = "routed"
    /\ model = <<"O", "p", "e", "n", "A", "I", "/">> \o <<"C", "L", "A", "U", "D", "E">>
    /\ endpoint = AnthropicEndpoint /\ client.class = "Anthropic"

\* the messages that are not the system message, in order
NonSystem(msgs) == SelectSeq(msgs, LAMBDA m : m.role # "system")

\* the system message of the list
SystemIndex(msgs) == CHOOSE i \in 1 .. Len(msgs) : msgs[i].role = "system"

\* C18: the translation drops the system message, puts one user message
\* "System: " + its content at index 0 and keeps the user and assistant
\* messages with their content and order; both translations give that list.
C18_TranslationInsertsSystemFirst ==
    pc = "translated" =>
      /\ anthropic_messages =
            IF SystemCount(messages) = 0 THEN messages
            ELSE <<Msg("user", SystemPrefix \o messages[SystemIndex(messages)].content)>>
                   \o NonSystem(messages)
      /\ retry_messages = anthropic_messages

C18_Witness ==
    /\ pc = "translated"
    /\ messages = <<Msg("user", <<"Y">>), Msg("system", <<"X">>), Msg("assistant", <<>>)>>
    /\ retry_messages = <<Msg("user", SystemPrefix \o <<"X">>), Msg("user", <<"Y">>),
                          Msg("assistant", <<>>)>>

\* f1 + f2 + ... + fn
RECURSIVE ConcatText(_)
ConcatText(fs) == IF fs = <<>> THEN <<>> ELSE Text(Head(fs)) \o ConcatText(Tail(fs))

\* the first variant names the model of the primary attempt: a provider that
\* answers a request the same way each time fails it at the same delta
SameAnswer ==
    wstate[1] # "idle" =>
      (wexc[1] # NoExc /\ emitted[1] = emitted[0] /\ wexc[1].kind = wexc[0].kind)

\* C19: the consumer's content is the concatenation of the fragments it was
\* yielded, in order and with nothing in between; and when a streaming call
\* and get_completion of the same request both end normally, the streamed
\* fragments concatenate to what get_completion returns.
C19_ConcatenationLaw ==
    /\ content = ConcatText(out)
    /\ (streamed.done /\ pc = "done" /\ SameAnswer
          /\ streamed.terms = <<EndEvent>> /\ terms = <<EndEvent>>)
            => content = streamed.content

\* C20: a NativeAlt call with stream=False has no worker and no queue, and
\* when its provider call succeeds it yields the full text as its one
\* fragment and ends normally.
C20_SingleShotOneFragment ==
    (~stream /\ NativeAlt /\ ~streamed.done) =>
      /\ \A a \in Attempts :
            wstate[a] = "idle" /\ queue[a] = <<>> /\ pushed[a] = <<>>
      /\ joins = <<>>
      /\ (pc = "done" /\ ~closing /\ won = <<0>>) =>
            /\ Len(out) = 1 /\ out[1].att = 0 /\ out[1].idx = 0
            /\ content = Text(out[1])
            /\ terms = <<EndEvent>>

C20_Witness ==
    /\ ~stream /\ NativeAlt /\ pc = "done" /\ ~closing /\ won = <<0>>
    /\ out = <<Full(0, 2)>> /\ terms = <<EndEvent>> /\ calls = <<0>>

-----------------------------------------------------------------------------
\* Properties of the command layer

\* C21 as stated: a command ends the process with exit code 0 when it
\* succeeds and with exit code 1 when it ends because of an unhandled error
\* or because the user interrupted it.
C21_InterruptExitsOne ==
    cpc = "exited" => exit_code = (IF outcome = "returned" THEN 0 ELSE 1)

\* C21 amended: a command ends the process with exit code 0 when it succeeds
\* or when the user interrupted it, and with exit code 1 when it ends because
\* of an error it did not handle; no other exit code is produced.
C21_ExitCodes ==
    /\ cpc = "exited" => exit_code = (IF outcome = "raised" THEN 1 ELSE 0)
    /\ cpc # "exited" => exit_code = -1
    /\ cpc \in {"ended", "exited"} <=> outcome # "none"

\* C21: each command was interrupted and the process ended with exit code 0
C21_Witness ==
    /\ cpc = "exited"
    /\ outcome \in {"interrupted", "acknowledged"}
    /\ exit_code = 0

\* C22 as stated: once chat_completion has raised an upstream failure to a
\* command, the command is ended (or is ending in its except clause) and the
\* process exits with a non-zero code, for search, ask and chat alike.
C22_FailureEndsEveryCommand ==
    upstream => /\ cpc \in {"h_err", "ended", "exited"}
                /\ cpc = "exited" => exit_code # 0

\* C22 amended: once chat_completion has raised an upstream failure to the
\* search or the ask command, that command has ended by raising and the
\* process exits with code 1; the chat command catches the failure (line
\* 216), prints it and prompts again: the failure does not end it, and
\* the chat command never exits with a non-zero code after it.
C22_FailureEndsSearchAndAsk ==
    [][ /\ (upstream' /\ command \in {"search", "ask"})
            => /\ cpc' \in {"ended", "exited"}
               /\ outcome' = "raised"
               /\ cpc' = "exited" => exit_code' = 1
        /\ (upstream' /\ command = "chat")
            => /\ outcome' # "raised"
               /\ exit_code' # 1
        /\ (command = "chat" /\ cpc = "h_err" /\ caught.t = "err")
            => \/ cpc' = "prompt" /\ notice' = [t |-> "error", err |-> caught]
               \/ cpc' = "ended" /\ outcome' = "acknowledged" ]_vars

\* C22: search or ask ended with exit code 1 after an upstream failure
C22_Witness ==
    /\ upstream
    /\ command \in {"search", "ask"}
    /\ cpc = "exited"
    /\ exit_code = 1

C24_SaveLoadRoundTrip ==
    /\ \A n \in ChatNames :
          disk[n].kind = "chat"
            => /\ disk[n].name = n
               /\ \A i \in 1 .. Len(disk[n].messages) : disk[n].messages[i].role # "system"
               /\ \A now \in Times :
                     load(disk[n], now).messages
                       = <<Msg("system", CHAT_SYSTEM_PROMPT)>> \o disk[n].messages
    /\ session # NoSession
          => /\ chat_data(session).messages = Tail(session.messages)
             /\ \A now \in Times : load(chat_data(session), now) = session

\* C24: a session named "a" that this run created holds a complete turn
\* and was saved by /save: the file holds its messages
C24_Witness ==
    /\ session # NoSession
    /\ session.name = "a"
    /\ session.created \in Times
    /\ Len(session.messages) >= 3
    /\ last_save # NoSave
    /\ disk[session.name] = chat_data(session)

\* C25: the ask command makes at most MAX_EXCHANGES requests and prompts at
\* most MAX_EXCHANGES - 1 times; it prompts only while fewer than
\* MAX_EXCHANGES requests were made (after the third answer it ends without
\* prompting); an empty follow-up ends it; and it always ends when each
\* request returns and each prompt is answered.
C25_AskBounded ==
    /\ [](command = "ask"
            => /\ requests <= MAX_EXCHANGES
               /\ prompts <= MAX_EXCHANGES - 1
               /\ prompts <= requests
               /\ cpc \in {"top", "input"} => exchanges_left + requests = MAX_EXCHANGES
               /\ cpc = "call" => exchanges_left + requests = MAX_EXCHANGES + 1
               /\ cpc = "input" => requests < MAX_EXCHANGES)
    /\ [][(command = "ask" /\ cpc = "input" /\ cpc' = "top")
            => /\ Len(cmd_messages') = Len(cmd_messages) + 1
               /\ strip(cmd_messages'[Len(cmd_messages')].content) # <<>>]_vars
    /\ (command = "ask" ~> cpc = "exited")

\* C25: the third answer ended the ask command after two prompts
C25_Witness ==
    /\ command = "ask"
    /\ requests = MAX_EXCHANGES
    /\ prompts = MAX_EXCHANGES - 1
    /\ exchanges_left = 0
    /\ cpc = "exited"
    /\ exit_code = 0

\* C26: after the consumer closed the generator at a yield, chat_completion
\* yields no further fragment and starts no further provider call.
C26_AbandonStartsNothing ==
    [][closing => out' = out /\ calls' = calls]_vars

\* C27: when chat_completion raises during a turn of the chat command, the
\* session keeps the user message of the turn as its last message and gets
\* no assistant message; the except clause prints the error and the loop
\* prompts again; and a save that follows writes the session's messages, the
\* unanswered user message included.
C27_FailedTurnKeepsUserMessage ==
    [][ /\ (cpc = "stream" /\ cpc' = "h_err")
            => /\ session' = session
               /\ session.messages[Len(session.messages)].role = "user"
               /\ caught'.t = "err"
        /\ (command = "chat" /\ cpc = "h_err" /\ cpc' = "prompt")
            => /\ session' = session
               /\ notice' = [t |-> "error", err |-> caught]
        /\ (command = "chat" /\ disk' # disk)
            => /\ disk'[session.name].messages = Tail(session.messages)
               /\ session' = session ]_vars

\* C27: a turn failed, the loop went on, and a save wrote the user message
\* that has no reply
C27_Witness ==
    /\ upstream
    /\ cpc = "prompt"
    /\ session.messages[Len(session.messages)].role = "user"
    /\ disk[session.name] = chat_data(session)

\* C28: whenever the chat command has a session, its message list is not
\* empty and starts with the system message holding CHAT_SYSTEM_PROMPT; a
\* /load that fails (no such chat, or an unreadable file) leaves the session
\* as it was.
C28_SystemPromptFirst ==
    /\ [](session # NoSession
            => /\ Len(session.messages) >= 1
               /\ session.messages[1] = Msg("system", CHAT_SYSTEM_PROMPT))
    /\ [][(cpc = "prompt" /\ (notice' = NotFound \/ caught'.t = "jsonerror"))
            => session' = session]_vars

\* C28: the command started without a name and a chat of an earlier run
\* was then loaded with /load
C28_Witness ==
    /\ cpc = "prompt"
    /\ session.created = EarlierTime
    /\ session.name = "a"
    /\ chat_name = NoName
    /\ Len(session.messages) >= 3

====
